---- MODULE Spec2Model ----
(***************************************************************************)
(* Hybrid retrieval of masinde70/uetldemo_rag: semantic (Qdrant) and       *)
(* keyword (PostgreSQL FTS) search, Reciprocal Rank Fusion, truncation and *)
(* citation enrichment (backend/rag.py), over the chunk rows and vector    *)
(* points written by document ingestion (backend/routers/ingest.py).       *)
(*                                                                         *)
(* Specifications:                                                         *)
(*   SpecFusion - rrf_fusion as a pure function of two hit lists and k.    *)
(*   Spec       - ingestion plus one hybrid_retrieve call at a time, with  *)
(*                every await of the call a separate step.                 *)
(*   SpecPolicy - the paths that delegate a chat mode's query to           *)
(*                hybrid_retrieve and the (top_n, filters) they pass.      *)
(*   SpecChunk  - chunk_text (backend/services/chunking.py), one loop      *)
(*                iteration a step, with the word-count token estimate.    *)
(*   SpecJobs   - the ingestion job queue and its worker                   *)
(*                (backend/services/ingestion_jobs.py).                    *)
(*   SpecDocOps - delete_document and reindex_document                     *)
(*                (backend/services/document_ops.py).                      *)
(*   SpecRetry  - retry_async (backend/services/retry.py).                 *)
(*   SpecPages  - the two page attribution functions.                      *)
(*   SpecAgents - AgentOrchestrator.multi_agent_query.                     *)
(*                                                                         *)
(* rrf_score is a Python float; it is modelled as an exact fraction        *)
(* <<numerator, denominator>>.  For the ranks and k used here two distinct *)
(* fractions never round to the same float, and equal fractions are        *)
(* computed by the same two float operations, so order and ties agree.     *)
(***************************************************************************)
EXTENDS Integers, Sequences, FiniteSets, TLC

\* ---------------------------------------------------------------- bounds
\* longest hit list drawn for rrf_fusion
MaxHits == 3
\* documents that may be ingested
MaxDocs == 2
\* chunks per ingested document
MaxChunksPerDoc == 2
\* chunks of all ingested documents together
MaxChunks == 3
\* largest character offset of a chunk start or a page start
MaxPos == 3
\* largest top_n / semantic_k / keyword_k passed to hybrid_retrieve
MaxTopN == 2
\* delegated hybrid_retrieve calls recorded in SpecPolicy
MaxCalls == 2
\* sentences of a text given to chunk_text
MaxSentences == 2
\* words of one sentence
MaxWords == 3
\* largest max_retries given to retry_async
MaxRetriesArg == 7
\* ingestion jobs created
MaxJobs == 2
\* chunk ids handed out by uuid4 to the document operations
MaxUuids == 4

\* ------------------------------------------------------- program constants
\* default k of rrf_fusion, the value hybrid_retrieve uses
K_RRF == 60

\* retry.py: the defaults of INITIAL_RETRY_DELAY, MAX_RETRY_DELAY and
\* BACKOFF_MULTIPLIER (seconds; 1.0, 30.0 and 2.0 there)
INITIAL_DELAY == 1
MAX_DELAY == 30
BACKOFF_MULTIPLIER == 2

\* Python's None in an integer-valued field (a rank, a page): no rank and no
\* page stored by the program is negative
None == -1

\* filters=None; "if filters:" treats None and the empty dict alike
NoFilters == <<>>

\* chunk ids of the hit lists drawn for rrf_fusion
ChunkIds == {"A", "B", "C", "D"}
\* values of k tried for rrf_fusion
KValues == {0, 1, K_RRF}

VARIABLES
    \* --- rrf_fusion as a pure function
    f_pc,            \* "input" before the call, "done" after
    f_semantic,      \* semantic_hits argument
    f_keyword,       \* keyword_hits argument
    f_k,             \* k argument
    f_out,           \* returned list
    \* --- stores
    documents,       \* rows of table documents
    db_chunks,       \* rows of table document_chunks
    qdrant_points,   \* points of the Qdrant collection
    uploads,         \* ingest requests that generated a file id so far
    chunk_uuids,     \* chunk ids generated so far
    \* --- one hybrid_retrieve call
    pc,              \* position of the call
    top_n, semantic_k, keyword_k, filters,   \* its arguments
    semantic_hits,   \* result of semantic_search
    keyword_hits,    \* result of keyword_search
    results,         \* returned list
    events,          \* start/end of the two sub-queries, in order
    failed,          \* sub-searches that raised
    \* --- retrieval policy
    p_agents,        \* AgentOrchestrator._agents: the modes with a cached agent
    p_call,          \* the hybrid_retrieve calls the chat paths delegated, in order
    \* --- one chunk_text call
    c_pc,            \* position in chunk_text
    c_sentences,     \* the sentences of the stripped text, each a list of words
    c_chunk_size,    \* chunk_size argument
    c_chunk_overlap, \* chunk_overlap argument
    c_loc,           \* the local variables of chunk_text
    c_chunks,        \* the list chunks
    \* --- ingestion jobs
    j_jobs,          \* _jobs: the jobs in insertion order
    j_queue,         \* _task_queue: job numbers, head first
    j_worker,        \* _worker_task: "none", or where ingestion_worker awaits
    j_current,       \* the job process_ingestion_job is working on, or 0
    j_rows,          \* jobs whose document and chunk rows are committed
    j_vectors,       \* jobs whose chunk vectors are upserted
    j_taken,         \* the jobs in the order ingestion_worker took them
    j_listed,        \* the last answer of list_jobs
    \* --- document operations
    o_documents,     \* rows of table documents
    o_chunks,        \* rows of table document_chunks
    o_points,        \* points of the Qdrant collection
    o_uuids,         \* chunk ids generated so far
    o_last,          \* the last operation, its before-state and how it ended
    \* --- one retry_async call
    r_pc,            \* position of the call
    r_max_retries,   \* max_retries argument
    r_attempt,       \* loop variable attempt
    r_calls,         \* how each call of func ended, in order
    r_sleeps,        \* the delays slept, in order
    r_last_error,    \* local last_error
    r_result,        \* what the call returned or raised
    \* --- one page lookup
    g_pc,            \* "input" before the lookup, "done" after
    g_page_breaks,   \* page_breaks argument
    g_position,      \* character position argument
    g_pages,         \* the pages the two functions returned
    \* --- one multi_agent_query call
    a_pc,            \* position of every agent's process
    a_given,         \* the history argument as the caller passed it
    a_history,       \* the caller's history list object now
    a_messages,      \* every agent's local list, where it is not the caller's
    a_sent           \* the messages every agent gave to chat_completion

fusionVars == <<f_pc, f_semantic, f_keyword, f_k, f_out>>
storeVars == <<documents, db_chunks, qdrant_points, uploads, chunk_uuids>>
callVars == <<pc, top_n, semantic_k, keyword_k, filters, semantic_hits,
              keyword_hits, results, events, failed>>
policyVars == <<p_agents, p_call>>
chunkVars == <<c_pc, c_sentences, c_chunk_size, c_chunk_overlap, c_loc, c_chunks>>
jobVars == <<j_jobs, j_queue, j_worker, j_current, j_rows, j_vectors, j_taken, j_listed>>
docVars == <<o_documents, o_chunks, o_points, o_uuids, o_last>>
retryVars == <<r_pc, r_max_retries, r_attempt, r_calls, r_sleeps, r_last_error, r_result>>
pageVars == <<g_pc, g_page_breaks, g_position, g_pages>>
agentVars == <<a_pc, a_given, a_history, a_messages, a_sent>>
opsVars == <<jobVars, docVars, retryVars, pageVars, agentVars>>
vars == <<f_pc, f_semantic, f_keyword, f_k, f_out,
          documents, db_chunks, qdrant_points, uploads, chunk_uuids,
          pc, top_n, semantic_k, keyword_k, filters, semantic_hits,
          keyword_hits, results, events, failed,
          p_agents, p_call,
          c_pc, c_sentences, c_chunk_size, c_chunk_overlap, c_loc, c_chunks,
          jobVars, docVars, retryVars, pageVars, agentVars>>

\* ------------------------------------------------------------- sequences
Range(s) == {s[i] : i \in DOMAIN s}

Min(a, b) == IF a < b THEN a ELSE b

\* s[:n] of Python for n >= 0
Take(s, n) == SubSeq(s, 1, Min(n, Len(s)))

\* sequences without repetition over S, of length at most n
InjSeqs(S, n) ==
    UNION {{s \in [1..m -> S] : \A i, j \in 1..m : i # j => s[i] # s[j]} : m \in 0..n}

\* index of the first element of s whose chunk_id is id (0 when absent)
IndexOf(s, id) ==
    IF \E i \in DOMAIN s : s[i].chunk_id = id
    THEN CHOOSE i \in DOMAIN s : s[i].chunk_id = id
                                 /\ \A j \in 1..(i - 1) : s[j].chunk_id # id
    ELSE 0

\* ------------------------------------------------------------- fractions
Frac(n, d) == <<n, d>>
FracZero == <<0, 1>>
FracAdd(a, b) == <<a[1] * b[2] + b[1] * a[2], a[2] * b[2]>>
FracEq(a, b) == a[1] * b[2] = b[1] * a[2]
FracGt(a, b) == a[1] * b[2] > b[1] * a[2]

\* ------------------------------------------------------------ rrf_fusion
\* ranks are the enumerate indices, from 0
AddRanksZeroBased(payloads, search_type) ==
    [i \in DOMAIN payloads |->
        [chunk_id |-> payloads[i].chunk_id,
         document_id |-> payloads[i].document_id,
         chunk_index |-> payloads[i].chunk_index,
         text |-> payloads[i].text,
         source |-> payloads[i].source,
         page |-> payloads[i].page,
         rank |-> i - 1,
         search_type |-> search_type]]

\* for rank, hit in enumerate(hits): hit["rank"] = rank + 1 (both searches)
AddRanks(payloads, search_type) ==
    [i \in DOMAIN payloads |->
        [chunk_id |-> payloads[i].chunk_id,
         document_id |-> payloads[i].document_id,
         chunk_index |-> payloads[i].chunk_index,
         text |-> payloads[i].text,
         source |-> payloads[i].source,
         page |-> payloads[i].page,
         rank |-> i,
         search_type |-> search_type]]

\* a term with k dropped from the denominator
RrfTermNoK(k, rank) == Frac(1, rank)

\* rrf_score = 1.0 / (k + hit["rank"])
RrfTerm(k, rank) == Frac(1, k + rank)

\* the score of an earlier list is dropped: scores[chunk_id] = rrf_score
ScoreGetOverwrite(scores, id) == FracZero

\* scores.get(chunk_id, 0)
ScoreGet(scores, id) == IF id \in DOMAIN scores THEN scores[id] ELSE FracZero

\* the key is appended on every hit, also when it is already present
KeysAfterAlwaysAppend(order, id) == Append(order, id)

\* insertion order of the keys of dict scores after scores[chunk_id] = ...
KeysAfter(order, id) == IF id \in Range(order) THEN order ELSE Append(order, id)

\* chunks[chunk_id] = {...} for a chunk first seen in the list of search_type
NewChunk(hit, search_type) ==
    [chunk_id |-> hit.chunk_id,
     document_id |-> hit.document_id,
     chunk_index |-> hit.chunk_index,
     text |-> hit.text,
     source |-> hit.source,
     page |-> hit.page,
     semantic_rank |-> IF search_type = "semantic" THEN hit.rank ELSE None,
     keyword_rank |-> IF search_type = "keyword" THEN hit.rank ELSE None]

\* the rank of a chunk already present is left as it was
SetRankForgotten(chunk, hit, search_type) == chunk

\* chunks[chunk_id]["semantic_rank" | "keyword_rank"] = hit["rank"]
SetRank(chunk, hit, search_type) ==
    IF search_type = "semantic"
    THEN [chunk EXCEPT !.semantic_rank = hit.rank]
    ELSE [chunk EXCEPT !.keyword_rank = hit.rank]

\* one iteration of "for hit in semantic_hits" / "for hit in keyword_hits"
AccumulateHit(acc, hit, k, search_type) ==
    LET id == hit.chunk_id
        rrf_score == RrfTerm(k, hit.rank)
    IN  [order |-> KeysAfter(acc.order, id),
         scores |-> (id :> FracAdd(ScoreGet(acc.scores, id), rrf_score)) @@ acc.scores,
         chunks |-> IF id \notin DOMAIN acc.chunks
                    THEN (id :> NewChunk(hit, search_type)) @@ acc.chunks
                    ELSE (id :> SetRank(acc.chunks[id], hit, search_type)) @@ acc.chunks]

RECURSIVE ProcessHits(_, _, _, _, _)
\* the whole loop over one hit list, from its i-th hit on
ProcessHits(hits, i, k, acc, search_type) ==
    IF i > Len(hits) THEN acc
    ELSE ProcessHits(hits, i + 1, k, AccumulateHit(acc, hits[i], k, search_type),
                     search_type)

\* x goes in front of the ids that score the same
SortInsertTiesReversed(sorted, x, scores) ==
    LET n == Cardinality({i \in DOMAIN sorted : FracGt(scores[sorted[i]], scores[x])})
    IN  SubSeq(sorted, 1, n) \o <<x>> \o SubSeq(sorted, n + 1, Len(sorted))

\* x goes behind the ids that score less: ascending order
SortInsertAscending(sorted, x, scores) ==
    LET n == Cardinality({i \in DOMAIN sorted : ~FracGt(scores[sorted[i]], scores[x])})
    IN  SubSeq(sorted, 1, n) \o <<x>> \o SubSeq(sorted, n + 1, Len(sorted))

\* one insertion of the stable descending sort: x goes behind every id whose
\* score is not smaller than its own
SortInsert(sorted, x, scores) ==
    LET n == Cardinality({i \in DOMAIN sorted : ~FracGt(scores[x], scores[sorted[i]])})
    IN  SubSeq(sorted, 1, n) \o <<x>> \o SubSeq(sorted, n + 1, Len(sorted))

RECURSIVE SortedDesc(_, _, _, _)
\* sorted(scores.keys(), key=lambda x: scores[x], reverse=True): Python's
\* sort is stable, also with reverse=True, and keys() is in insertion order
SortedDesc(order, i, scores, sorted) ==
    IF i > Len(order) THEN sorted
    ELSE SortedDesc(order, i + 1, scores, SortInsert(sorted, order[i], scores))

EmptyAcc == [order |-> <<>>, scores |-> <<>>, chunks |-> <<>>]

\* rrf_fusion(semantic_hits, keyword_hits, k)
rrf_fusion(sem, kw, k) ==
    LET a1 == ProcessHits(sem, 1, k, EmptyAcc, "semantic")
        a2 == ProcessHits(kw, 1, k, a1, "keyword")
        sorted_ids == SortedDesc(a2.order, 1, a2.scores, <<>>)
    IN  [i \in DOMAIN sorted_ids |->
            [chunk_id |-> a2.chunks[sorted_ids[i]].chunk_id,
             document_id |-> a2.chunks[sorted_ids[i]].document_id,
             chunk_index |-> a2.chunks[sorted_ids[i]].chunk_index,
             text |-> a2.chunks[sorted_ids[i]].text,
             source |-> a2.chunks[sorted_ids[i]].source,
             page |-> a2.chunks[sorted_ids[i]].page,
             semantic_rank |-> a2.chunks[sorted_ids[i]].semantic_rank,
             keyword_rank |-> a2.chunks[sorted_ids[i]].keyword_rank,
             rrf_score |-> a2.scores[sorted_ids[i]]]]

\* ------------------------------------------------- specification SpecFusion
\* payload of a drawn hit; rrf_fusion copies it and never reads it
FusionPayload(id) ==
    [chunk_id |-> id, document_id |-> "d1", chunk_index |-> 0, text |-> id,
     source |-> <<"uetcl", " - ", "plan">>, page |-> 1]

\* hit lists as semantic_search and keyword_search return them: distinct
\* chunk ids, ranks 1..n
HitLists(search_type) ==
    {AddRanks([i \in DOMAIN ids |-> FusionPayload(ids[i])], search_type) :
        ids \in InjSeqs(ChunkIds, MaxHits)}

\* the stores are empty and no hybrid_retrieve call is running
IdleCall ==
    /\ pc = "idle"
    /\ top_n = 0 /\ semantic_k = 0 /\ keyword_k = 0 /\ filters = NoFilters
    /\ semantic_hits = <<>> /\ keyword_hits = <<>> /\ results = <<>>
    /\ events = <<>> /\ failed = {}

EmptyStores == documents = {} /\ db_chunks = {} /\ qdrant_points = {}
               /\ uploads = 0 /\ chunk_uuids = 0

\* the variables of the other specifications, at rest
NoFusionCall ==
    f_pc = "unused" /\ f_semantic = <<>> /\ f_keyword = <<>> /\ f_k = K_RRF
    /\ f_out = <<>>

NoPolicyCall == p_agents = {} /\ p_call = <<>>

NoChunkCall ==
    /\ c_pc = "unused" /\ c_sentences = <<>> /\ c_chunk_size = 0
    /\ c_chunk_overlap = 0 /\ c_loc = <<>> /\ c_chunks = <<>>

NoJobs ==
    /\ j_jobs = <<>> /\ j_queue = <<>> /\ j_worker = "none" /\ j_current = 0
    /\ j_rows = {} /\ j_vectors = {} /\ j_taken = <<>> /\ j_listed = <<>>

NoDocOps ==
    /\ o_documents = {} /\ o_chunks = {} /\ o_points = {} /\ o_uuids = 0
    /\ o_last = <<>>

NoRetryCall ==
    /\ r_pc = "unused" /\ r_max_retries = 0 /\ r_attempt = 0 /\ r_calls = <<>>
    /\ r_sleeps = <<>> /\ r_last_error = "None" /\ r_result = <<>>

NoPageCall ==
    g_pc = "unused" /\ g_page_breaks = <<>> /\ g_position = 0 /\ g_pages = <<>>

NoAgentCall ==
    /\ a_pc = <<>> /\ a_given = <<>> /\ a_history = <<>> /\ a_messages = <<>>
    /\ a_sent = <<>>

\* the variables of the specifications of the operations, at rest
OpsAtRest == NoJobs /\ NoDocOps /\ NoRetryCall /\ NoPageCall /\ NoAgentCall

InitFusion ==
    /\ f_pc = "input"
    /\ f_semantic \in HitLists("semantic")
    /\ f_keyword \in HitLists("keyword")
    /\ f_k \in KValues
    /\ f_out = <<>>
    /\ EmptyStores
    /\ IdleCall
    /\ NoPolicyCall
    /\ NoChunkCall
    /\ OpsAtRest

\* a call rrf_fusion(f_semantic, f_keyword, f_k)
CallRrfFusion ==
    /\ f_pc = "input"
    /\ f_out' = rrf_fusion(f_semantic, f_keyword, f_k)
    /\ f_pc' = "done"
    /\ UNCHANGED <<f_semantic, f_keyword, f_k>>
    /\ UNCHANGED storeVars
    /\ UNCHANGED policyVars
    /\ UNCHANGED chunkVars
    /\ UNCHANGED opsVars
    /\ UNCHANGED callVars

NextFusion == CallRrfFusion

SpecFusion == InitFusion /\ [][NextFusion]_vars

\* ------------------------------------------------ properties of rrf_fusion
Ids(hits) == [i \in DOMAIN hits |-> hits[i].chunk_id]

IdSet(hits) == {hits[i].chunk_id : i \in DOMAIN hits}

\* 1/(k + rank of id in hits) when hits contains id, nothing otherwise
Contribution(hits, id, k) ==
    IF IndexOf(hits, id) > 0
    THEN Frac(1, k + hits[IndexOf(hits, id)].rank)
    ELSE FracZero

\* position of id in the concatenation of the two lists
FirstSeen(id) == IndexOf(f_semantic \o f_keyword, id)

\* C1: after rrf_fusion every chunk id of either list has an entry whose
\* rrf_score is the sum of 1/(k + rank) over exactly the lists containing it;
\* a list without the chunk adds nothing.
C1_ScoreIsSumOverContainingLists ==
    f_pc = "done" =>
        \A id \in IdSet(f_semantic) \cup IdSet(f_keyword) :
            \E i \in DOMAIN f_out :
                /\ f_out[i].chunk_id = id
                /\ FracEq(f_out[i].rrf_score,
                          FracAdd(Contribution(f_semantic, id, f_k),
                                  Contribution(f_keyword, id, f_k)))

\* C1 witness: k = 60, one chunk in both lists, one only in the semantic list
\* and one only in the keyword list have been fused
C1_Witness ==
    /\ f_pc = "done" /\ f_k = K_RRF
    /\ IdSet(f_semantic) \cap IdSet(f_keyword) # {}
    /\ IdSet(f_semantic) \ IdSet(f_keyword) # {}
    /\ IdSet(f_keyword) \ IdSet(f_semantic) # {}

ScenarioInput ==
    /\ Ids(f_semantic) = <<"A", "B", "C">>
    /\ Ids(f_keyword) = <<"B", "D">>
    /\ f_k = 60

\* C2: semantic [A, B, C], keyword [B, D], k = 60 gives A = 1/61,
\* B = 1/62 + 1/61, C = 1/63, D = 1/62 in the order B, A, D, C.
C2_ScenarioOrderAndScores ==
    (f_pc = "done" /\ ScenarioInput) =>
        /\ Ids(f_out) = <<"B", "A", "D", "C">>
        /\ FracEq(f_out[1].rrf_score, <<61 + 62, 61 * 62>>)
        /\ FracEq(f_out[2].rrf_score, <<1, 61>>)
        /\ FracEq(f_out[3].rrf_score, <<1, 62>>)
        /\ FracEq(f_out[4].rrf_score, <<1, 63>>)

\* C2 witness: the scenario has been fused
C2_Witness == f_pc = "done" /\ ScenarioInput /\ Len(f_out) = 4

\* C3: the chunk ids of the output are the union of the chunk ids of the two
\* lists, and each occurs in exactly one output entry.
C3_OutputIsUnionOnce ==
    f_pc = "done" =>
        /\ IdSet(f_out) = IdSet(f_semantic) \cup IdSet(f_keyword)
        /\ \A i, j \in DOMAIN f_out : f_out[i].chunk_id = f_out[j].chunk_id => i = j

\* C3 witness: a chunk present in both lists has been merged with chunks
\* present in one list only
C3_Witness ==
    /\ f_pc = "done"
    /\ IdSet(f_semantic) \cap IdSet(f_keyword) # {}
    /\ Len(f_out) < Len(f_semantic) + Len(f_keyword)
    /\ Len(f_out) > Len(f_semantic)

\* C4: the output is sorted by non-increasing rrf_score, and entries with
\* equal rrf_score stand in the order in which their chunk ids first occur in
\* semantic_hits followed by keyword_hits, so the whole order is a function
\* of the two lists and k.
C4_SortedDescTiesByFirstSeen ==
    f_pc = "done" =>
        \A i, j \in DOMAIN f_out :
            i < j =>
                /\ ~FracGt(f_out[j].rrf_score, f_out[i].rrf_score)
                /\ FracEq(f_out[i].rrf_score, f_out[j].rrf_score)
                    => FirstSeen(f_out[i].chunk_id) < FirstSeen(f_out[j].chunk_id)

\* C4 witness: the output holds two entries of equal rrf_score and one of a
\* different rrf_score
C4_Witness ==
    /\ f_pc = "done"
    /\ \E i, j, l \in DOMAIN f_out :
        /\ i # j
        /\ FracEq(f_out[i].rrf_score, f_out[j].rrf_score)
        /\ ~FracEq(f_out[i].rrf_score, f_out[l].rrf_score)

\* rank of id in hits, None when hits does not contain id
RankIn(hits, id) ==
    IF IndexOf(hits, id) > 0 THEN hits[IndexOf(hits, id)].rank ELSE None

\* C10: every fused entry has semantic_rank = the chunk's rank in the
\* semantic list (None when absent), keyword_rank likewise, and at least one
\* of the two is not None.
C10_RankProvenance ==
    f_pc = "done" =>
        \A i \in DOMAIN f_out :
            /\ f_out[i].semantic_rank = RankIn(f_semantic, f_out[i].chunk_id)
            /\ f_out[i].keyword_rank = RankIn(f_keyword, f_out[i].chunk_id)
            /\ f_out[i].semantic_rank # None \/ f_out[i].keyword_rank # None

\* C10 witness: the output holds an entry with both ranks, one with only a
\* semantic rank and one with only a keyword rank
C10_Witness ==
    /\ f_pc = "done"
    /\ \E i, j, l \in DOMAIN f_out :
        /\ f_out[i].semantic_rank # None /\ f_out[i].keyword_rank # None
        /\ f_out[j].semantic_rank # None /\ f_out[j].keyword_rank = None
        /\ f_out[l].semantic_rank = None /\ f_out[l].keyword_rank # None

\* C11: a fused chunk present in both lists at ranks (r, s) scores strictly
\* more than 1/(k + r) and than 1/(k + s), which is exactly what a chunk
\* present in one list only at rank r or s scores, in this or any other
\* fusion with the same k; so a chunk ranked 1st in both lists beats a chunk
\* ranked 1st in one.
C11_BothListsBeatOneList ==
    f_pc = "done" =>
        /\ \A i \in DOMAIN f_out :
            IF f_out[i].semantic_rank # None /\ f_out[i].keyword_rank # None
            THEN /\ FracGt(f_out[i].rrf_score, Frac(1, f_k + f_out[i].semantic_rank))
                 /\ FracGt(f_out[i].rrf_score, Frac(1, f_k + f_out[i].keyword_rank))
            ELSE IF f_out[i].semantic_rank # None
            THEN FracEq(f_out[i].rrf_score, Frac(1, f_k + f_out[i].semantic_rank))
            ELSE FracEq(f_out[i].rrf_score, Frac(1, f_k + f_out[i].keyword_rank))
        /\ \A i, j \in DOMAIN f_out :
            (/\ f_out[i].semantic_rank # None /\ f_out[i].keyword_rank # None
             /\ \/ f_out[j].semantic_rank = None
                   /\ f_out[j].keyword_rank
                          \in {f_out[i].semantic_rank, f_out[i].keyword_rank}
                \/ f_out[j].keyword_rank = None
                   /\ f_out[j].semantic_rank
                          \in {f_out[i].semantic_rank, f_out[i].keyword_rank})
            => FracGt(f_out[i].rrf_score, f_out[j].rrf_score)

\* C11 witness: one chunk is 1st in the semantic and 2nd in the keyword list,
\* another is 1st in the keyword list only
C11_Witness ==
    /\ f_pc = "done"
    /\ \E i, j \in DOMAIN f_out :
        /\ f_out[i].semantic_rank = 1 /\ f_out[i].keyword_rank = 2
        /\ f_out[j].semantic_rank = None /\ f_out[j].keyword_rank = 1


\* ---------------------------------------------------------------- stores
\* a Python str is a sequence of pieces, so that an f-string is a
\* concatenation and two strings are equal when their pieces are
Str(x) == <<x>>

\* values of DocumentType and DocumentSource used by the uploads
DocumentTypes == {"strategy", "regulatory"}
DocumentSources == {"uetcl", "era"}
DocNames == {"plan"}

\* uuid.uuid4() for the file of the n-th upload and for the n-th chunk made
FileIds == <<"d1", "d2", "d3", "d4">>
ChunkUuids == <<"A", "B", "C", "D", "E", "F", "G", "H">>
FileId(n) == FileIds[n]
ChunkUuid(n) == ChunkUuids[n]

\* page_breaks of extract_pdf_text for a non-empty text: the first page
\* starts at 0, every page adds at least "\n\n"
PageBreakLists == {<<0>>} \cup {<<0, b>> : b \in 2..MaxPos}

\* (char_start of chunk 0, 1, ...) of chunk_text: the first chunk starts at 0
CharStartLists ==
    UNION {{cs \in [1..n -> 0..MaxPos] : cs[1] = 0} : n \in 1..MaxChunksPerDoc}

\* page numbers counted from 0, as the comment in determine_page reads
determine_page_zero_indexed(char_start, page_breaks) ==
    IF page_breaks = <<>> THEN None
    ELSE IF \E i \in DOMAIN page_breaks : char_start < page_breaks[i]
         THEN (CHOOSE i \in DOMAIN page_breaks :
                  /\ char_start < page_breaks[i]
                  /\ \A j \in 1..(i - 1) : ~(char_start < page_breaks[j])) - 2
         ELSE Len(page_breaks) - 1

\* determine_page(char_start, page_breaks); enumerate counts from 0
determine_page(char_start, page_breaks) ==
    IF page_breaks = <<>> THEN None
    ELSE IF \E i \in DOMAIN page_breaks : char_start < page_breaks[i]
         THEN (CHOOSE i \in DOMAIN page_breaks :
                  /\ char_start < page_breaks[i]
                  /\ \A j \in 1..(i - 1) : ~(char_start < page_breaks[j])) - 1
         ELSE Len(page_breaks)

\* source_ref = f"{source_enum.value} - {doc_name}"
SourceRef(source, name) == <<source, " - ", name>>

\* the chunk dicts of one upload, shared by the DocumentChunk rows and the
\* Qdrant points
NewChunks(n, source, name, char_starts, page_breaks) ==
    {[chunk_id |-> ChunkUuid(chunk_uuids + i),
      document_id |-> FileId(n),
      chunk_index |-> i - 1,
      text |-> ChunkUuid(chunk_uuids + i),
      source |-> SourceRef(source, name),
      page |-> determine_page(char_starts[i], page_breaks)] : i \in DOMAIN char_starts}

\* ingest_document: a valid PDF upload with non-empty text.  outcome "ok":
\* rows added, points upserted, commit.  "upsert_error": get_embeddings or
\* upsert_chunks raises, the session is rolled back.  "commit_error": the
\* points are upserted and db.commit() raises, the rows are rolled back.
ingest_document(doc_type, source, name, char_starts, page_breaks, outcome) ==
    LET n == uploads + 1
        chunks == NewChunks(n, source, name, char_starts, page_breaks)
    IN  /\ uploads < MaxDocs
        /\ chunk_uuids + Len(char_starts) <= MaxChunks
        /\ uploads' = n
        /\ chunk_uuids' = chunk_uuids + Len(char_starts)
        /\ documents' = IF outcome = "ok"
                        THEN documents \cup {[id |-> FileId(n), name |-> name,
                                              type |-> doc_type, source |-> source]}
                        ELSE documents
        /\ db_chunks' = IF outcome = "ok" THEN db_chunks \cup chunks ELSE db_chunks
        /\ qdrant_points' = IF outcome \in {"ok", "commit_error"}
                            THEN qdrant_points \cup chunks
                            ELSE qdrant_points
        /\ UNCHANGED fusionVars
        /\ UNCHANGED callVars
        /\ UNCHANGED policyVars
        /\ UNCHANGED chunkVars
        /\ UNCHANGED opsVars

\* ------------------------------------------------------------ sub-searches
\* semantic_k and keyword_k: no caller passes them, both searches get the
\* same candidate pool size, not below top_n
SearchKs == {MaxTopN}

\* the keys the docstrings of hybrid_retrieve and keyword_search document
\* and keyword_search reads
KnownFilterKeys == {"source", "type", "document_id"}

\* the filters argument: None, a dict with one of the documented keys, or a
\* dict with a key no search knows (filters is an untyped Optional[dict])
FilterInputs ==
    {NoFilters}
    \cup {("source" :> Str(v)) : v \in DocumentSources}
    \cup {("type" :> Str(v)) : v \in DocumentTypes}
    \cup {("document_id" :> Str(FileId(n))) : n \in 1..MaxDocs}
    \cup {("sourse" :> Str(v)) : v \in {"uetcl"}}

\* search_similar: the FieldConditions built from filters, on the payload
QdrantFilterPasses(point, f) ==
    /\ "source" \in DOMAIN f => point.source = f["source"]
    /\ "document_id" \in DOMAIN f => Str(point.document_id) = f["document_id"]

\* keyword_search: the where clauses built from filters, on the chunk row
\* joined with its document
KeywordFilterPasses(row, f) ==
    \E doc \in documents :
        /\ doc.id = row.document_id
        /\ "source" \in DOMAIN f => Str(doc.source) = f["source"]
        /\ "type" \in DOMAIN f => Str(doc.type) = f["type"]
        /\ "document_id" \in DOMAIN f => Str(row.document_id) = f["document_id"]

\* the lists client.search may return: the top_k nearest of the points that
\* pass the filter, in an order the vectors decide
QdrantResults(f, top_k) ==
    LET pass == {pt \in qdrant_points : QdrantFilterPasses(pt, f)}
    IN  {l \in InjSeqs(pass, top_k) : Len(l) = Min(top_k, Cardinality(pass))}

\* the row lists db.execute may return: at most top_k of the rows that pass
\* the filter, those the query matches, in an order ts_rank decides
KeywordRows(f, top_k) ==
    InjSeqs({r \in db_chunks : KeywordFilterPasses(r, f)}, top_k)

\* ---------------------------------------------------------- hybrid_retrieve
\* "if page:" is false for None and for 0
Citation(source, page) ==
    IF page # None /\ page # 0
    THEN <<"[">> \o source \o <<" p.", ToString(page), "]">>
    ELSE <<"[">> \o source \o <<"]">>

\* result["citation"] = ... for each result
Enrich(entries) ==
    [i \in DOMAIN entries |->
        [chunk_id |-> entries[i].chunk_id,
         document_id |-> entries[i].document_id,
         chunk_index |-> entries[i].chunk_index,
         text |-> entries[i].text,
         source |-> entries[i].source,
         page |-> entries[i].page,
         semantic_rank |-> entries[i].semantic_rank,
         keyword_rank |-> entries[i].keyword_rank,
         rrf_score |-> entries[i].rrf_score,
         citation |-> Citation(entries[i].source, entries[i].page)]]

\* one entry more than top_n is kept
TruncateOneMore(fused, n) == Take(fused, n + 1)

\* results = fused[:top_n]
Truncate(fused, n) == Take(fused, n)

\* both sub-queries are started at once, as asyncio.gather would
StartEventsGather == <<"start_semantic", "start_keyword">>

\* sub-queries started when hybrid_retrieve is entered: line 213 awaits
\* semantic_search alone
StartEvents == <<"start_semantic">>

\* a failed semantic search is taken as an empty list
SemanticErrorDegrades == "keyword_search"

\* where the call goes when semantic_search raises: no try/except around
\* line 213, the exception leaves hybrid_retrieve
SemanticErrorTarget == "raised"

\* a call of hybrid_retrieve up to its first await: semantic_search is
\* entered and awaits get_embedding
StartRetrieve(tn, sk, kk, f) ==
    /\ pc = "idle"
    /\ top_n' = tn /\ semantic_k' = sk /\ keyword_k' = kk /\ filters' = f
    /\ pc' = "get_embedding"
    /\ events' = StartEvents
    /\ UNCHANGED <<semantic_hits, keyword_hits, results, failed>>
    /\ UNCHANGED fusionVars
    /\ UNCHANGED storeVars
    /\ UNCHANGED policyVars
    /\ UNCHANGED chunkVars
    /\ UNCHANGED opsVars

\* get_embedding returns; semantic_search awaits search_similar
EmbeddingReturns ==
    /\ pc = "get_embedding"
    /\ pc' = "search_similar"
    /\ UNCHANGED <<top_n, semantic_k, keyword_k, filters, semantic_hits,
                   keyword_hits, results, events, failed>>
    /\ UNCHANGED fusionVars
    /\ UNCHANGED storeVars
    /\ UNCHANGED policyVars
    /\ UNCHANGED chunkVars
    /\ UNCHANGED opsVars

\* search_similar returns and semantic_search returns its ranked hits; in
\* the same step hybrid_retrieve enters keyword_search, which awaits
\* db.execute
SearchSimilarReturns ==
    /\ pc = "search_similar"
    /\ \E l \in QdrantResults(filters, semantic_k) :
           semantic_hits' = AddRanks(l, "semantic")
    /\ events' = events \o <<"end_semantic", "start_keyword">>
    /\ pc' = "keyword_search"
    /\ UNCHANGED <<top_n, semantic_k, keyword_k, filters, keyword_hits, results, failed>>
    /\ UNCHANGED fusionVars
    /\ UNCHANGED storeVars
    /\ UNCHANGED policyVars
    /\ UNCHANGED chunkVars
    /\ UNCHANGED opsVars

\* get_embedding or search_similar raises (missing key, backend down)
SemanticSearchRaises ==
    /\ pc \in {"get_embedding", "search_similar"}
    /\ failed' = failed \cup {"semantic"}
    /\ events' = events \o <<"raise_semantic">>
    /\ pc' = SemanticErrorTarget
    /\ UNCHANGED <<top_n, semantic_k, keyword_k, filters, semantic_hits,
                   keyword_hits, results>>
    /\ UNCHANGED fusionVars
    /\ UNCHANGED storeVars
    /\ UNCHANGED policyVars
    /\ UNCHANGED chunkVars
    /\ UNCHANGED opsVars

\* an empty result list is reported as an error
ReturnTargetRaisesOnEmpty(res) == IF res = <<>> THEN "raised" ELSE "done"

\* "return results": whatever the list holds, no check for emptiness
ReturnTarget(res) == "done"

\* db.execute returns; keyword_search ranks the rows, and hybrid_retrieve
\* fuses, truncates, enriches and returns without another await
KeywordSearchReturns ==
    /\ pc = "keyword_search"
    /\ \E rows \in KeywordRows(filters, keyword_k) :
           /\ keyword_hits' = AddRanks(rows, "keyword")
           /\ results' = Enrich(Truncate(rrf_fusion(semantic_hits,
                                                    AddRanks(rows, "keyword"),
                                                    K_RRF), top_n))
    /\ events' = events \o <<"end_keyword">>
    /\ pc' = ReturnTarget(results')
    /\ UNCHANGED <<top_n, semantic_k, keyword_k, filters, semantic_hits, failed>>
    /\ UNCHANGED fusionVars
    /\ UNCHANGED storeVars
    /\ UNCHANGED policyVars
    /\ UNCHANGED chunkVars
    /\ UNCHANGED opsVars

\* db.execute raises: no try/except around line 214
KeywordSearchRaises ==
    /\ pc = "keyword_search"
    /\ failed' = failed \cup {"keyword"}
    /\ events' = events \o <<"raise_keyword">>
    /\ pc' = "raised"
    /\ UNCHANGED <<top_n, semantic_k, keyword_k, filters, semantic_hits,
                   keyword_hits, results>>
    /\ UNCHANGED fusionVars
    /\ UNCHANGED storeVars
    /\ UNCHANGED policyVars
    /\ UNCHANGED chunkVars
    /\ UNCHANGED opsVars

\* the caller has the list or the exception; the next call may start
CallEnds ==
    /\ pc \in {"done", "raised"}
    /\ pc' = "idle"
    /\ top_n' = 0 /\ semantic_k' = 0 /\ keyword_k' = 0 /\ filters' = NoFilters
    /\ semantic_hits' = <<>> /\ keyword_hits' = <<>> /\ results' = <<>>
    /\ events' = <<>> /\ failed' = {}
    /\ UNCHANGED fusionVars
    /\ UNCHANGED storeVars
    /\ UNCHANGED policyVars
    /\ UNCHANGED chunkVars
    /\ UNCHANGED opsVars

\* ------------------------------------------------------ specification Spec
Init ==
    /\ EmptyStores
    /\ IdleCall
    /\ NoFusionCall
    /\ NoPolicyCall
    /\ NoChunkCall
    /\ OpsAtRest

Next ==
    \/ \E doc_type \in DocumentTypes, source \in DocumentSources, name \in DocNames,
          char_starts \in CharStartLists, page_breaks \in PageBreakLists,
          outcome \in {"ok", "upsert_error", "commit_error"} :
          ingest_document(doc_type, source, name, char_starts, page_breaks, outcome)
    \/ \E tn \in 1..MaxTopN, sk \in SearchKs, kk \in SearchKs, f \in FilterInputs :
          StartRetrieve(tn, sk, kk, f)
    \/ EmbeddingReturns
    \/ SearchSimilarReturns
    \/ SemanticSearchRaises
    \/ KeywordSearchReturns
    \/ KeywordSearchRaises
    \/ CallEnds

Spec == Init /\ [][Next]_vars

\* ------------------------------------------- properties of hybrid_retrieve
\* some event a occurs in the log before position i
Before(a, i) == \E j \in 1..(i - 1) : events[j] = a

\* the stored chunk an entry of the returned list was built from
ChunkOf(entry) ==
    [chunk_id |-> entry.chunk_id, document_id |-> entry.document_id,
     chunk_index |-> entry.chunk_index, text |-> entry.text,
     source |-> entry.source, page |-> entry.page]

C7_FiltersApplyIdentically ==
    pc = "done" =>
        \A i \in DOMAIN results :
            /\ ChunkOf(results[i]) \in db_chunks =>
                   KeywordFilterPasses(ChunkOf(results[i]), filters)
            /\ ChunkOf(results[i]) \in qdrant_points =>
                   QdrantFilterPasses(ChunkOf(results[i]), filters)

C9_ResultIsPrefixOfFused ==
    pc = "done" =>
        LET fused == rrf_fusion(semantic_hits, keyword_hits, K_RRF)
        IN  /\ Len(results) = Min(top_n, Len(fused))
            /\ Len(results) <= top_n
            /\ \A i \in DOMAIN results :
                /\ ChunkOf(results[i]) = ChunkOf(fused[i])
                /\ results[i].rrf_score = fused[i].rrf_score
                /\ results[i].semantic_rank = fused[i].semantic_rank
                /\ results[i].keyword_rank = fused[i].keyword_rank

\* C9 witness: more candidates were fused than top_n, and top_n were returned
C9_Witness ==
    /\ pc = "done"
    /\ Len(rrf_fusion(semantic_hits, keyword_hits, K_RRF)) > top_n
    /\ Len(results) = top_n

\* C12: a call with a malformed filter (here a key no search knows) fails
\* before either sub-search executes: no embedding or vector-index call and
\* no full-text query is issued for it.
C12_MalformedFilterFailsFast ==
    (pc # "idle" /\ \E key \in DOMAIN filters : key \notin KnownFilterKeys) =>
        /\ pc = "raised"
        /\ \A i \in DOMAIN events :
               events[i] \notin {"start_semantic", "start_keyword"}

\* C13: when both sub-searches have returned and neither has a hit, the call
\* has returned the empty list and no error was raised.
C13_EmptyListsReturnEmpty ==
    (/\ Len(events) > 0 /\ events[Len(events)] = "end_keyword"
     /\ semantic_hits = <<>> /\ keyword_hits = <<>>) =>
        pc = "done" /\ results = <<>> /\ failed = {}

\* C13 witness: a call on an empty corpus returned
C13_Witness ==
    /\ pc = "done" /\ db_chunks = {} /\ qdrant_points = {}
    /\ events = <<"start_semantic", "end_semantic", "start_keyword", "end_keyword">>
    /\ results = <<>>

\* C14: the hit lists of semantic_search and keyword_search carry the ranks
\* 1, 2, ..., n in list order, so ranks are positive, strictly increasing and
\* without ties.
C14_RanksAreListPositions ==
    /\ \A i \in DOMAIN semantic_hits : semantic_hits[i].rank = i
    /\ \A i \in DOMAIN keyword_hits : keyword_hits[i].rank = i

\* C14 witness: both searches returned two hits, in different orders
C14_Witness ==
    /\ pc = "done" /\ Len(semantic_hits) = 2 /\ Len(keyword_hits) = 2
    /\ semantic_hits[1].chunk_id = keyword_hits[2].chunk_id
    /\ semantic_hits[2].chunk_id = keyword_hits[1].chunk_id

\* ================================================== specification SpecPolicy
\* ChatMode
ChatModes == {"strategy_qa", "actions", "analytics", "regulatory"}

\* MODE_AGENT_MAP
MODE_AGENT_MAP ==
    [strategy_qa |-> "StrategyAgent", actions |-> "ActionsAgent",
     analytics |-> "AnalyticsAgent", regulatory |-> "RegulatoryAgent"]

\* the agent classes that define get_top_n themselves
OverridesTopN == {"StrategyAgent", "ActionsAgent", "RegulatoryAgent"}

\* get_top_n as the method resolution of each agent class finds it
get_top_n(agent_class) ==
    CASE agent_class = "StrategyAgent" -> 10
      [] agent_class = "ActionsAgent" -> 8
      [] agent_class = "RegulatoryAgent" -> 10
      [] OTHER -> 8

\* get_retrieval_filters: BaseAgent and the RegulatoryAgent override both
\* return None
get_retrieval_filters(agent_class) == NoFilters

\* routers/chat.py get_source_filter: disabled, None for every mode
get_source_filter(mode) == NoFilters

\* the hybrid_retrieve call a path delegates, as recorded
Delegated(path, mode, n, f) ==
    [path |-> path, mode |-> mode, top_n |-> n, filters |-> f]

\* BaseAgent.retrieve_context of the agent of a mode
retrieve_context(path, mode) ==
    Delegated(path, mode, get_top_n(MODE_AGENT_MAP[mode]),
              get_retrieval_filters(MODE_AGENT_MAP[mode]))

\* what the variables of the other specifications do in SpecPolicy
PolicyFrame ==
    /\ UNCHANGED fusionVars
    /\ UNCHANGED storeVars
    /\ UNCHANGED callVars
    /\ UNCHANGED chunkVars
    /\ UNCHANGED opsVars

\* POST /chat (routers/chat.py): top_n=8 and get_source_filter(mode)
chat(mode) ==
    /\ Len(p_call) < MaxCalls
    /\ p_call' = Append(p_call, Delegated("chat", mode, 8, get_source_filter(mode)))
    /\ UNCHANGED p_agents
    /\ PolicyFrame

\* POST /chat/stream (routers/chat_stream.py): top_n=8, filters=None
stream_chat(mode) ==
    /\ Len(p_call) < MaxCalls
    /\ p_call' = Append(p_call, Delegated("stream_chat", mode, 8, NoFilters))
    /\ UNCHANGED p_agents
    /\ PolicyFrame

\* POST /v1/chat: route_to_agent makes a new agent of the mode's class,
\* whose process calls retrieve_context
route_to_agent(mode) ==
    /\ Len(p_call) < MaxCalls
    /\ p_call' = Append(p_call, retrieve_context("route_to_agent", mode))
    /\ UNCHANGED p_agents
    /\ PolicyFrame

\* AgentOrchestrator.process: get_agent caches the agent of the mode, then
\* its process calls retrieve_context
AgentOrchestrator_process(mode) ==
    /\ Len(p_call) < MaxCalls
    /\ p_agents' = p_agents \cup {mode}
    /\ p_call' = Append(p_call, retrieve_context("AgentOrchestrator", mode))
    /\ PolicyFrame

InitPolicy ==
    /\ NoPolicyCall
    /\ NoFusionCall
    /\ EmptyStores
    /\ IdleCall
    /\ NoChunkCall
    /\ OpsAtRest

NextPolicy ==
    \/ \E mode \in ChatModes : chat(mode)
    \/ \E mode \in ChatModes : stream_chat(mode)
    \/ \E mode \in ChatModes : route_to_agent(mode)
    \/ \E mode \in ChatModes : AgentOrchestrator_process(mode)

SpecPolicy == InitPolicy /\ [][NextPolicy]_vars

\* C20: on every path that delegates a mode's query to hybrid_retrieve, a
\* regulatory query is retrieved with top_n = 10 and a query of a mode whose
\* agent has no get_top_n of its own with top_n = 8, with the mode's
\* filters, whatever calls came before.
C20_ModeDecidesTopN ==
    \A i \in DOMAIN p_call :
        /\ p_call[i].mode = "regulatory" => p_call[i].top_n = 10
        /\ MODE_AGENT_MAP[p_call[i].mode] \notin OverridesTopN => p_call[i].top_n = 8
        /\ p_call[i].filters = get_retrieval_filters(MODE_AGENT_MAP[p_call[i].mode])

\* =================================================== specification SpecChunk
\* A word is modelled by its number of characters, a sentence by the list of
\* its words (single spaces between them), a text by the list of its
\* sentences (single spaces between them, as re.split and ' '.join see it).
\* A unit of a chunk is <<s, 0>> for sentence s, or <<s, w>> for word w of
\* the force-split sentence s.
WordLens == {1, 2}
Sentences == UNION {[1..n -> WordLens] : n \in 1..MaxWords}
Texts == UNION {[1..n -> Sentences] : n \in 0..MaxSentences}
ChunkSizes == {1, 2, 3}
ChunkOverlaps == {0, 1, 2}

RECURSIVE SumSeq(_)
SumSeq(q) == IF q = <<>> THEN 0 ELSE q[1] + SumSeq(Tail(q))

\* len(' '.join(words)) for the words' lengths
JoinLen(lens) == IF lens = <<>> THEN 0 ELSE SumSeq(lens) + Len(lens) - 1

\* count_tokens without tiktoken: int(len(text.split()) / 0.75)
count_tokens(n_words) == (4 * n_words) \div 3

\* count_tokens(sentence) for sentence s of the text
SentenceTokens(s) == count_tokens(Len(c_sentences[s]))

\* len(sentence)
SentenceLen(s) == JoinLen(c_sentences[s])

\* the overlap loops (lines 78-84 and 109-115): how many trailing units are
\* kept, given the token counts of the units of the closed chunk
RECURSIVE OverlapCount(_, _)
OverlapCount(toks, budget) ==
    IF toks = <<>> THEN 0
    ELSE IF toks[Len(toks)] <= budget
         THEN 1 + OverlapCount(SubSeq(toks, 1, Len(toks) - 1),
                               budget - toks[Len(toks)])
         ELSE 0

\* the last n elements of a list
LastN(q, n) == SubSeq(q, Len(q) - n + 1, Len(q))

\* overlap_sentences of lines 107-115
OverlapSentences(current_chunk) ==
    LastN(current_chunk,
          OverlapCount([x \in DOMAIN current_chunk |-> SentenceTokens(current_chunk[x])],
                       c_chunk_overlap))

\* overlap_words of lines 76-84: every word counts count_tokens(word)
OverlapWords(word_chunk) ==
    LastN(word_chunk,
          OverlapCount([x \in DOMAIN word_chunk |-> count_tokens(1)], c_chunk_overlap))

\* a tuple appended to chunks, with the units its text is joined from
SentenceChunk(current_chunk, char_start, char_end) ==
    [units |-> [x \in DOMAIN current_chunk |-> <<current_chunk[x], 0>>],
     char_start |-> char_start, char_end |-> char_end]

WordChunk(s, word_chunk, char_start, char_end) ==
    [units |-> [x \in DOMAIN word_chunk |-> <<s, word_chunk[x]>>],
     char_start |-> char_start, char_end |-> char_end]

\* the last chunk is forgotten
FlushCurrentForgotten(chunks, loc) == chunks

\* "if current_chunk: chunks.append((chunk_text, chunk_start, char_pos))"
\* (lines 58-60 and 127-129)
FlushCurrent(chunks, loc) ==
    IF loc.current_chunk # <<>>
    THEN Append(chunks, SentenceChunk(loc.current_chunk, loc.chunk_start, loc.char_pos))
    ELSE chunks

\* what the variables of the other specifications do in SpecChunk
ChunkFrame ==
    /\ UNCHANGED <<c_sentences, c_chunk_size, c_chunk_overlap>>
    /\ UNCHANGED opsVars
    /\ UNCHANGED fusionVars
    /\ UNCHANGED storeVars
    /\ UNCHANGED callVars
    /\ UNCHANGED policyVars

\* lines 39-50: strip, return [] for an empty text, split, set the locals
StripAndSplit ==
    /\ c_pc = "start"
    /\ c_pc' = IF c_sentences = <<>> THEN "done" ELSE "for_sentence"
    /\ c_loc' = [i |-> 1, current_chunk |-> <<>>, current_tokens |-> 0,
                 chunk_start |-> 0, char_pos |-> 0, j |-> 0,
                 word_chunk |-> <<>>, word_tokens |-> 0, word_start |-> 0]
    /\ c_chunks' = <<>>
    /\ ChunkFrame

\* one iteration of "for sentence in sentences" with a sentence that fits
\* chunk_size (lines 53, 100-124)
ChunkSentence ==
    /\ c_pc = "for_sentence"
    /\ c_loc.i <= Len(c_sentences)
    /\ SentenceTokens(c_loc.i) <= c_chunk_size
    /\ LET s == c_loc.i
           ov == OverlapSentences(c_loc.current_chunk)
       IN  IF c_loc.current_tokens + SentenceTokens(s) > c_chunk_size
              /\ c_loc.current_chunk # <<>>
           THEN /\ c_chunks' = FlushCurrent(c_chunks, c_loc)
                /\ c_loc' = [c_loc EXCEPT
                       !.current_chunk = Append(ov, s),
                       !.current_tokens =
                           SumSeq([x \in DOMAIN ov |-> SentenceTokens(ov[x])])
                           + SentenceTokens(s),
                       !.chunk_start =
                           c_loc.char_pos
                           - SumSeq([x \in DOMAIN ov |-> SentenceLen(ov[x]) + 1]),
                       !.char_pos = c_loc.char_pos + SentenceLen(s) + 1,
                       !.i = s + 1]
           ELSE /\ c_chunks' = c_chunks
                /\ c_loc' = [c_loc EXCEPT
                       !.current_chunk = Append(c_loc.current_chunk, s),
                       !.current_tokens = c_loc.current_tokens + SentenceTokens(s),
                       !.char_pos = c_loc.char_pos + SentenceLen(s) + 1,
                       !.i = s + 1]
    /\ c_pc' = "for_sentence"
    /\ ChunkFrame

\* a sentence over chunk_size: flush, then enter the word loop (lines 56-68)
ForceSplitEnter ==
    /\ c_pc = "for_sentence"
    /\ c_loc.i <= Len(c_sentences)
    /\ SentenceTokens(c_loc.i) > c_chunk_size
    /\ c_chunks' = FlushCurrent(c_chunks, c_loc)
    /\ c_loc' = [c_loc EXCEPT
           !.current_chunk = <<>>,
           !.current_tokens = IF c_loc.current_chunk # <<>> THEN 0
                              ELSE c_loc.current_tokens,
           !.j = 1, !.word_chunk = <<>>, !.word_tokens = 0,
           !.word_start = c_loc.char_pos]
    /\ c_pc' = "for_word"
    /\ ChunkFrame

\* one iteration of "for word in words" (lines 70-90)
ChunkWord ==
    /\ c_pc = "for_word"
    /\ c_loc.j <= Len(c_sentences[c_loc.i])
    /\ LET s == c_loc.i
           word == c_loc.j
           word_tok == count_tokens(1)
           ov == OverlapWords(c_loc.word_chunk)
       IN  IF c_loc.word_tokens + word_tok > c_chunk_size /\ c_loc.word_chunk # <<>>
           THEN /\ c_chunks' =
                       Append(c_chunks,
                              WordChunk(s, c_loc.word_chunk, c_loc.word_start,
                                        c_loc.char_pos
                                        + JoinLen([x \in DOMAIN c_loc.word_chunk |->
                                                     c_sentences[s][c_loc.word_chunk[x]]])))
                /\ c_loc' = [c_loc EXCEPT
                       !.word_chunk = Append(ov, word),
                       !.word_tokens = Len(ov) * count_tokens(1) + word_tok,
                       !.word_start = c_loc.char_pos,
                       !.j = word + 1]
           ELSE /\ c_chunks' = c_chunks
                /\ c_loc' = [c_loc EXCEPT
                       !.word_chunk = Append(c_loc.word_chunk, word),
                       !.word_tokens = c_loc.word_tokens + word_tok,
                       !.j = word + 1]
    /\ c_pc' = "for_word"
    /\ ChunkFrame

\* the word loop is over: the rest of the words is a chunk, and the sentence
\* loop continues behind the sentence (lines 92-98)
ForceSplitLeave ==
    /\ c_pc = "for_word"
    /\ c_loc.j > Len(c_sentences[c_loc.i])
    /\ c_chunks' =
           IF c_loc.word_chunk # <<>>
           THEN Append(c_chunks,
                       WordChunk(c_loc.i, c_loc.word_chunk, c_loc.word_start,
                                 c_loc.char_pos + SentenceLen(c_loc.i)))
           ELSE c_chunks
    /\ c_loc' = [c_loc EXCEPT
           !.char_pos = c_loc.char_pos + SentenceLen(c_loc.i) + 1,
           !.chunk_start = c_loc.char_pos + SentenceLen(c_loc.i) + 1,
           !.i = c_loc.i + 1]
    /\ c_pc' = "for_sentence"
    /\ ChunkFrame

\* the sentence loop is over: the last chunk and "return chunks"
\* (lines 126-131)
LastChunk ==
    /\ c_pc = "for_sentence"
    /\ c_loc.i > Len(c_sentences)
    /\ c_chunks' = FlushCurrent(c_chunks, c_loc)
    /\ c_loc' = c_loc
    /\ c_pc' = "done"
    /\ ChunkFrame

InitChunk ==
    /\ c_pc = "start"
    /\ c_sentences \in Texts
    /\ c_chunk_size \in ChunkSizes
    /\ c_chunk_overlap \in ChunkOverlaps
    /\ c_loc = <<>>
    /\ c_chunks = <<>>
    /\ NoFusionCall
    /\ EmptyStores
    /\ IdleCall
    /\ NoPolicyCall
    /\ OpsAtRest

NextChunk ==
    \/ StripAndSplit
    \/ ChunkSentence
    \/ ForceSplitEnter
    \/ ChunkWord
    \/ ForceSplitLeave
    \/ LastChunk

SpecChunk == InitChunk /\ [][NextChunk]_vars

\* every enabled step of the one thread running chunk_text is taken
SpecChunkFair == SpecChunk /\ WF_vars(NextChunk)

\* ------------------------------------------------ properties of chunk_text
\* the units of sentences s.. of the text in reading order: a sentence over
\* chunk_size is its words, any other sentence is one unit
RECURSIVE UnitsFrom(_)
UnitsFrom(s) ==
    IF s > Len(c_sentences) THEN <<>>
    ELSE (IF SentenceTokens(s) > c_chunk_size
          THEN [w \in 1..Len(c_sentences[s]) |-> <<s, w>>]
          ELSE <<<<s, 0>>>>) \o UnitsFrom(s + 1)

\* how many leading units of cur repeat the trailing units of prev
RepeatedUnits(prev, cur) ==
    LET ns == {n \in 0..Min(Len(prev), Len(cur)) : LastN(prev, n) = SubSeq(cur, 1, n)}
    IN  CHOOSE n \in ns : \A m \in ns : m <= n

\* chunks k.. read in order, the re-included overlap units left out
RECURSIVE ReadFrom(_)
ReadFrom(k) ==
    IF k > Len(c_chunks) THEN <<>>
    ELSE LET cur == c_chunks[k].units
             n == IF k = 1 THEN 0 ELSE RepeatedUnits(c_chunks[k - 1].units, cur)
         IN  SubSeq(cur, n + 1, Len(cur)) \o ReadFrom(k + 1)

\* count_tokens of a unit's text
UnitTokens(u) == IF u[2] = 0 THEN SentenceTokens(u[1]) ELSE count_tokens(1)

\* the number of words of a chunk's text
ChunkWords(chunk) ==
    SumSeq([x \in DOMAIN chunk.units |->
               IF chunk.units[x][2] = 0 THEN Len(c_sentences[chunk.units[x][1]]) ELSE 1])

\* len(T) of the stripped text
TextLen == JoinLen([s \in DOMAIN c_sentences |-> SentenceLen(s)])

\* C15: every unit of the text is in a chunk, and the chunks read in order
\* without the re-included overlap units are the units of the text in their
\* order, none missing.
C15_ChunksCoverUnitsInOrder ==
    c_pc = "done" =>
        /\ ReadFrom(1) = UnitsFrom(1)
        /\ \A x \in DOMAIN UnitsFrom(1) :
               \E k \in DOMAIN c_chunks : UnitsFrom(1)[x] \in Range(c_chunks[k].units)

\* C15 witness: a text of a fitting and a force-split sentence, chunked into
\* at least three chunks of which one repeats units of its predecessor
C15_Witness ==
    /\ c_pc = "done" /\ Len(c_sentences) = 2 /\ Len(c_chunks) >= 3
    /\ \E s \in DOMAIN c_sentences : SentenceTokens(s) > c_chunk_size
    /\ \E s \in DOMAIN c_sentences : SentenceTokens(s) <= c_chunk_size
    /\ \E k \in 2..Len(c_chunks) :
           RepeatedUnits(c_chunks[k - 1].units, c_chunks[k].units) > 0

\* C16: with chunk_size >= chunk_overlap, count_tokens of a chunk's text is
\* at most chunk_size plus the token count of one unit of the chunk (the
\* chunk's largest unit; one word for a chunk of a force-split sentence).
C16_ChunkSizeBound ==
    c_chunk_size >= c_chunk_overlap =>
        \A k \in DOMAIN c_chunks :
            \E x \in DOMAIN c_chunks[k].units :
                count_tokens(ChunkWords(c_chunks[k]))
                    <= c_chunk_size + UnitTokens(c_chunks[k].units[x])

\* C17: chunk k+1 begins with the longest run of trailing units of chunk k
\* whose token counts add up to at most chunk_overlap, followed by a unit
\* that is not in chunk k.
C17_OverlapIsTrailingRun ==
    \A k \in 1..(Len(c_chunks) - 1) :
        LET prev == c_chunks[k].units
            cur == c_chunks[k + 1].units
            run == LastN(prev, OverlapCount([x \in DOMAIN prev |-> UnitTokens(prev[x])],
                                            c_chunk_overlap))
        IN  /\ Len(cur) > Len(run)
            /\ SubSeq(cur, 1, Len(run)) = run
            /\ cur[Len(run) + 1] \notin Range(prev)

\* C18: chunk_text terminates on every input, and a text of one sentence
\* over chunk_size is returned split on word boundaries into more than one
\* chunk.
C18_TerminatesAndSplits ==
    /\ <>(c_pc = "done")
    /\ []((c_pc = "done" /\ Len(c_sentences) = 1 /\ SentenceTokens(1) > c_chunk_size)
             => Len(c_chunks) > 1)

\* C19: every chunk's range is a range of the stripped text, and char_start
\* and char_end do not decrease along the chunk list.
C19_CharRangesValidAndMonotone ==
    /\ \A k \in DOMAIN c_chunks :
           /\ 0 <= c_chunks[k].char_start
           /\ c_chunks[k].char_start <= c_chunks[k].char_end
           /\ c_chunks[k].char_end <= TextLen
    /\ \A k \in 1..(Len(c_chunks) - 1) :
           /\ c_chunks[k].char_start <= c_chunks[k + 1].char_start
           /\ c_chunks[k].char_end <= c_chunks[k + 1].char_end

\* =================================================== specification SpecPages
\* character positions of the looked-up text
PagePositions == 0..7

\* page_breaks as extract_pdf_text builds it: len(full_text) before every
\* page, so the first page starts at 0 and every page adds at least "\n\n";
\* and the empty list of a file without pages
PageStartLists ==
    {<<>>, <<0>>}
    \cup {<<0, b>> : b \in {x \in PagePositions : x >= 2}}
    \cup {<<0, bc[1], bc[2]>> :
             bc \in {y \in PagePositions \X PagePositions : y[1] >= 2 /\ y[2] >= y[1] + 2}}

\* chunking.py extract_page_from_position: i + 1 for the first break behind
\* the position (i counted from 0), len(page_breaks) + 1 when there is none
extract_page_from_position(char_position, page_breaks) ==
    IF page_breaks = <<>> THEN None
    ELSE IF \E i \in DOMAIN page_breaks : char_position < page_breaks[i]
         THEN (CHOOSE i \in DOMAIN page_breaks :
                  /\ char_position < page_breaks[i]
                  /\ \A h \in 1..(i - 1) : ~(char_position < page_breaks[h]))
         ELSE Len(page_breaks) + 1

\* what the variables of the other specifications do in SpecPages
PageFrame ==
    /\ UNCHANGED fusionVars
    /\ UNCHANGED storeVars
    /\ UNCHANGED callVars
    /\ UNCHANGED policyVars
    /\ UNCHANGED chunkVars
    /\ UNCHANGED <<jobVars, docVars, retryVars, agentVars>>

\* both functions are applied to the same position and page_breaks
LookupPage ==
    /\ g_pc = "input"
    /\ g_pc' = "done"
    /\ g_pages' = [extract_page_from_position |->
                       extract_page_from_position(g_position, g_page_breaks),
                   determine_page |-> determine_page(g_position, g_page_breaks)]
    /\ UNCHANGED <<g_page_breaks, g_position>>
    /\ PageFrame

InitPages ==
    /\ g_pc = "input"
    /\ g_page_breaks \in PageStartLists
    /\ g_position \in PagePositions
    /\ g_pages = <<>>
    /\ NoFusionCall /\ EmptyStores /\ IdleCall /\ NoPolicyCall /\ NoChunkCall
    /\ NoJobs /\ NoDocOps /\ NoRetryCall /\ NoAgentCall

NextPages == LookupPage

SpecPages == InitPages /\ [][NextPages]_vars

\* the page (counted from 1) a position lies in: the number of page starts
\* at or before it
PageOf(char_position, page_breaks) ==
    Cardinality({i \in DOMAIN page_breaks : page_breaks[i] <= char_position})

\* C29: for page_breaks listing the page starts (the first at 0), both
\* extract_page_from_position and determine_page attribute a position inside
\* the j-th page to page j, and both return None for an empty list.
C29_BothFunctionsGivePageJ ==
    g_pc = "done" =>
        IF g_page_breaks = <<>>
        THEN g_pages.extract_page_from_position = None /\ g_pages.determine_page = None
        ELSE /\ g_pages.extract_page_from_position = PageOf(g_position, g_page_breaks)
             /\ g_pages.determine_page = PageOf(g_position, g_page_breaks)

\* =================================================== specification SpecRetry
\* the retryable exceptions func may raise
RetryableErrors == {"ConnectionError", "TimeoutError"}

\* the delay grows without a cap
calculate_backoffUncapped(attempt) ==
    INITIAL_DELAY * (BACKOFF_MULTIPLIER ^ (attempt - 1))

\* calculate_backoff(attempt)
calculate_backoff(attempt) ==
    Min(INITIAL_DELAY * (BACKOFF_MULTIPLIER ^ (attempt - 1)), MAX_DELAY)

\* what retry_async hands to its caller
RetryOutcome(kind, attempts, last_error) ==
    [kind |-> kind, attempts |-> attempts, last_error |-> last_error]

\* what the variables of the other specifications do in SpecRetry
RetryFrame ==
    /\ UNCHANGED r_max_retries
    /\ UNCHANGED fusionVars
    /\ UNCHANGED storeVars
    /\ UNCHANGED callVars
    /\ UNCHANGED policyVars
    /\ UNCHANGED chunkVars
    /\ UNCHANGED <<jobVars, docVars, pageVars, agentVars>>

\* lines 82-86: the loop is entered and func is awaited, or range(1,
\* max_retries + 1) is empty and line 107 raises RetryError
StartRetry ==
    /\ r_pc = "input"
    /\ IF r_max_retries >= 1
       THEN r_pc' = "func" /\ r_attempt' = 1 /\ r_result' = r_result
       ELSE /\ r_pc' = "raised" /\ r_attempt' = r_attempt
            /\ r_result' = RetryOutcome("RetryError", r_max_retries, "None")
    /\ UNCHANGED <<r_calls, r_sleeps, r_last_error>>
    /\ RetryFrame

\* line 86: func returns and its result is returned
FuncReturns ==
    /\ r_pc = "func"
    /\ r_calls' = Append(r_calls, "ok")
    /\ r_pc' = "returned"
    /\ r_result' = RetryOutcome("returned", r_attempt, "None")
    /\ UNCHANGED <<r_attempt, r_sleeps, r_last_error>>
    /\ RetryFrame

\* lines 87-105, 107-111: func raises a retryable exception; before the
\* last attempt the delay is slept, after it the loop ends and RetryError
\* is raised
FuncRaises(e) ==
    /\ r_pc = "func"
    /\ r_calls' = Append(r_calls, e)
    /\ r_last_error' = e
    /\ IF r_attempt < r_max_retries
       THEN /\ r_sleeps' = Append(r_sleeps, calculate_backoff(r_attempt))
            /\ r_pc' = "sleep"
            /\ r_result' = r_result
       ELSE /\ r_sleeps' = r_sleeps
            /\ r_pc' = "raised"
            /\ r_result' = RetryOutcome("RetryError", r_max_retries, e)
    /\ UNCHANGED r_attempt
    /\ RetryFrame

\* func raises an exception outside retryable_exceptions (a BaseException
\* such as CancelledError with the default tuple): it leaves retry_async
FuncRaisesOther ==
    /\ r_pc = "func"
    /\ r_calls' = Append(r_calls, "CancelledError")
    /\ r_pc' = "raised"
    /\ r_result' = RetryOutcome("CancelledError", r_attempt, r_last_error)
    /\ UNCHANGED <<r_attempt, r_sleeps, r_last_error>>
    /\ RetryFrame

\* asyncio.sleep(delay) returns: the next attempt
SleepReturns ==
    /\ r_pc = "sleep"
    /\ r_attempt' = r_attempt + 1
    /\ r_pc' = "func"
    /\ UNCHANGED <<r_calls, r_sleeps, r_last_error, r_result>>
    /\ RetryFrame

InitRetry ==
    /\ r_pc = "input"
    /\ r_max_retries \in 0..MaxRetriesArg
    /\ r_attempt = 0 /\ r_calls = <<>> /\ r_sleeps = <<>>
    /\ r_last_error = "None" /\ r_result = <<>>
    /\ NoFusionCall /\ EmptyStores /\ IdleCall /\ NoPolicyCall /\ NoChunkCall
    /\ NoJobs /\ NoDocOps /\ NoPageCall /\ NoAgentCall

NextRetry ==
    \/ StartRetry
    \/ FuncReturns
    \/ \E e \in RetryableErrors : FuncRaises(e)
    \/ FuncRaisesOther
    \/ SleepReturns

SpecRetry == InitRetry /\ [][NextRetry]_vars

\* C28: func is called at most max_retries times and never after a call
\* that succeeded, whose result is returned; when max_retries calls all
\* raised a retryable exception RetryError is raised with attempts =
\* max_retries and last_error the exception of the last call; the wait
\* after attempt n is min(INITIAL_DELAY * BACKOFF_MULTIPLIER^(n-1),
\* MAX_DELAY), and no wait follows the last attempt.
C28_BoundedRetryWithCappedBackoff ==
    /\ Len(r_calls) <= r_max_retries
    /\ \A i \in 1..(Len(r_calls) - 1) : r_calls[i] \in RetryableErrors
    /\ (r_calls # <<>> /\ r_calls[Len(r_calls)] = "ok") =>
           r_pc = "returned" /\ r_result.kind = "returned"
    /\ (/\ r_max_retries >= 1 /\ Len(r_calls) = r_max_retries
        /\ \A i \in DOMAIN r_calls : r_calls[i] \in RetryableErrors) =>
           /\ r_pc = "raised"
           /\ r_result = RetryOutcome("RetryError", r_max_retries,
                                      r_calls[Len(r_calls)])
    /\ \A n \in DOMAIN r_sleeps :
           /\ r_sleeps[n] <= MAX_DELAY
           /\ \/ r_sleeps[n] = INITIAL_DELAY * BACKOFF_MULTIPLIER ^ (n - 1)
              \/ /\ r_sleeps[n] = MAX_DELAY
                 /\ INITIAL_DELAY * BACKOFF_MULTIPLIER ^ (n - 1) > MAX_DELAY
           /\ n < r_max_retries
    /\ Len(r_sleeps) = IF r_pc \in {"returned", "raised"} /\ r_calls # <<>>
                       THEN Len(r_calls) - 1
                       ELSE Len(r_calls)

\* C28 witness: seven attempts all failed, the waits reached the cap, and
\* RetryError carries the last exception
C28_Witness ==
    /\ r_pc = "raised" /\ r_max_retries = 7
    /\ r_result = RetryOutcome("RetryError", 7, "TimeoutError")
    /\ r_sleeps = <<1, 2, 4, 8, 16, 30>>
    /\ r_calls[1] = "ConnectionError"

\* ================================================== specification SpecAgents
\* a message is modelled by a name: "h1", "h2" of the history, "q" the
\* {"role": "user", "content": query} that process appends
HistoryInputs ==
    {[is_none |-> TRUE, list |-> <<>>],
     [is_none |-> FALSE, list |-> <<>>],
     [is_none |-> FALSE, list |-> <<"h1">>],
     [is_none |-> FALSE, list |-> <<"h1", "h2">>]}

\* the modes argument of multi_agent_query
ModeLists ==
    {<<"strategy_qa", "regulatory">>, <<"analytics", "actions">>,
     <<"strategy_qa", "analytics", "regulatory">>}

\* "history or []": the caller's list object itself unless it is None or
\* empty
AliasesHistory(given) == ~given.is_none /\ given.list # <<>>

\* chat_completion copies messages[-10:] before its first await
LastTen(messages) == LastN(messages, Min(10, Len(messages)))

\* what the variables of the other specifications do in SpecAgents
AgentFrame ==
    /\ UNCHANGED a_given
    /\ UNCHANGED fusionVars
    /\ UNCHANGED storeVars
    /\ UNCHANGED callVars
    /\ UNCHANGED policyVars
    /\ UNCHANGED chunkVars
    /\ UNCHANGED <<jobVars, docVars, retryVars, pageVars>>

\* process from "messages = history or []" to the await inside
\* chat_completion: the query is appended to messages, which is the
\* caller's list when that is non-empty, and the last ten are copied
PrepareMessages(mode) ==
    IF AliasesHistory(a_given)
    THEN /\ a_history' = Append(a_history, "q")
         /\ a_messages' = a_messages
         /\ a_sent' = [a_sent EXCEPT ![mode] = LastTen(Append(a_history, "q"))]
    ELSE /\ a_history' = a_history
         /\ a_messages' = [a_messages EXCEPT ![mode] = <<"q">>]
         /\ a_sent' = [a_sent EXCEPT ![mode] = LastTen(<<"q">>)]

\* retrieve_context returns to process: BaseAgent.process goes on to
\* chat_completion, AnalyticsAgent.process awaits get_analytics_data first
RetrieveContextReturns(mode) ==
    /\ mode \in DOMAIN a_pc
    /\ a_pc[mode] = "retrieve_context"
    /\ IF MODE_AGENT_MAP[mode] = "AnalyticsAgent"
       THEN /\ a_pc' = [a_pc EXCEPT ![mode] = "get_analytics_data"]
            /\ UNCHANGED <<a_history, a_messages, a_sent>>
       ELSE /\ a_pc' = [a_pc EXCEPT ![mode] = "chat_completion"]
            /\ PrepareMessages(mode)
    /\ AgentFrame

\* get_analytics_data returns to AnalyticsAgent.process
AnalyticsDataReturns(mode) ==
    /\ mode \in DOMAIN a_pc
    /\ a_pc[mode] = "get_analytics_data"
    /\ a_pc' = [a_pc EXCEPT ![mode] = "chat_completion"]
    /\ PrepareMessages(mode)
    /\ AgentFrame

\* the completion arrives and process returns its AgentResponse
CompletionReturns(mode) ==
    /\ mode \in DOMAIN a_pc
    /\ a_pc[mode] = "chat_completion"
    /\ a_pc' = [a_pc EXCEPT ![mode] = "done"]
    /\ UNCHANGED <<a_history, a_messages, a_sent>>
    /\ AgentFrame

\* multi_agent_query has created one query_agent task per mode; every task
\* has entered process and awaits retrieve_context
InitAgents ==
    /\ \E modes \in ModeLists :
           /\ a_pc = [m \in Range(modes) |-> "retrieve_context"]
           /\ a_messages = [m \in Range(modes) |-> <<>>]
           /\ a_sent = [m \in Range(modes) |-> <<>>]
    /\ a_given \in HistoryInputs
    /\ a_history = a_given.list
    /\ NoFusionCall /\ EmptyStores /\ IdleCall /\ NoPolicyCall /\ NoChunkCall
    /\ NoJobs /\ NoDocOps /\ NoRetryCall /\ NoPageCall

NextAgents ==
    \/ \E mode \in ChatModes : RetrieveContextReturns(mode)
    \/ \E mode \in ChatModes : AnalyticsDataReturns(mode)
    \/ \E mode \in ChatModes : CompletionReturns(mode)

SpecAgents == InitAgents /\ [][NextAgents]_vars

\* C30: process leaves the caller's history list as it was given, and every
\* agent of multi_agent_query gives the language model the given history
\* followed by one copy of the query, in every interleaving.
C30_HistoryNotSharedBetweenAgents ==
    /\ a_history = a_given.list
    /\ \A mode \in DOMAIN a_pc :
           a_pc[mode] \in {"chat_completion", "done"} =>
               a_sent[mode] = Append(a_given.list, "q")

\* ==================================================== specification SpecJobs
\* A job is known by its number in creation order (its place in the dict
\* _jobs). created_at has the class-level default datetime.now(...) of
\* IngestionJob, evaluated once when the class is defined and not passed by
\* create_job: the import time, 0 here, for every job. document_id and
\* completed_at are modelled by whether they are set.
NewJob ==
    [status |-> "queued", progress |-> 0, document_id |-> FALSE,
     completed_at |-> FALSE, created_at |-> 0]

\* completed_at is stamped on every update
update_jobStampsAlways(jobs, job_id, status, progress, document_id) ==
    [jobs EXCEPT ![job_id] =
        [status |-> IF status # "None" THEN status ELSE @.status,
         progress |-> IF progress # None THEN progress ELSE @.progress,
         document_id |-> @.document_id \/ document_id,
         completed_at |-> TRUE,
         created_at |-> @.created_at]]

\* update_job(job_id, status, progress, ..., document_id): the arguments
\* that are given overwrite the fields, completed_at is set when the new
\* status is DONE or FAILED
update_job(jobs, job_id, status, progress, document_id) ==
    [jobs EXCEPT ![job_id] =
        [status |-> IF status # "None" THEN status ELSE @.status,
         progress |-> IF progress # None THEN progress ELSE @.progress,
         document_id |-> @.document_id \/ document_id,
         completed_at |-> @.completed_at \/ status \in {"done", "failed"},
         created_at |-> @.created_at]]

\* sorted(..., key=created_at, reverse=True) is stable: a job is put in
\* front of the jobs with a smaller key only
RECURSIVE InsertByCreatedDesc(_, _, _)
InsertByCreatedDesc(jobs, sorted, job_id) ==
    IF sorted = <<>> THEN <<job_id>>
    ELSE IF jobs[job_id].created_at > jobs[Head(sorted)].created_at
         THEN <<job_id>> \o sorted
         ELSE <<Head(sorted)>> \o InsertByCreatedDesc(jobs, Tail(sorted), job_id)

RECURSIVE SortedByCreatedDesc(_, _)
SortedByCreatedDesc(jobs, n) ==
    IF n = 0 THEN <<>>
    ELSE InsertByCreatedDesc(jobs, SortedByCreatedDesc(jobs, n - 1), n)

\* list_jobs(limit), as job numbers
list_jobs(jobs, limit) == Take(SortedByCreatedDesc(jobs, Len(jobs)), limit)

\* an exception in process_ingestion_job ends the worker
WorkerAfterFailureStops == "none"

\* "except Exception" in process_ingestion_job: the job is marked FAILED,
\* process returns, and the worker loop goes back to _task_queue.get()
WorkerAfterFailure == "get"

\* where ingestion_worker is suspended in an await and can be cancelled
WorkerAwaits == {"get", "get_embeddings", "commit", "upsert_chunks"}

\* what the variables of the other specifications do in SpecJobs
JobFrame ==
    /\ UNCHANGED fusionVars
    /\ UNCHANGED storeVars
    /\ UNCHANGED callVars
    /\ UNCHANGED policyVars
    /\ UNCHANGED chunkVars
    /\ UNCHANGED <<docVars, retryVars, pageVars, agentVars>>

\* POST /docs/async: create_job, then queue_job (put on the unbounded queue
\* does not suspend)
CreateAndQueueJob ==
    /\ Len(j_jobs) < MaxJobs
    /\ j_jobs' = Append(j_jobs, NewJob)
    /\ j_queue' = Append(j_queue, Len(j_jobs) + 1)
    /\ UNCHANGED <<j_worker, j_current, j_rows, j_vectors, j_taken, j_listed>>
    /\ JobFrame

\* GET /docs/jobs
ListJobs(limit) ==
    /\ j_listed' = [limit |-> limit, jobs_then |-> Len(j_jobs),
                    jobs |-> list_jobs(j_jobs, limit)]
    /\ UNCHANGED <<j_jobs, j_queue, j_worker, j_current, j_rows, j_vectors, j_taken>>
    /\ JobFrame

\* start_worker: a new task unless one is alive
start_worker ==
    /\ j_worker = "none"
    /\ j_worker' = "get"
    /\ UNCHANGED <<j_jobs, j_queue, j_current, j_rows, j_vectors, j_taken, j_listed>>
    /\ JobFrame

\* stop_worker: the task is cancelled where it awaits; CancelledError is no
\* Exception, so process_ingestion_job does not catch it and the job it was
\* working on is left as it is
stop_worker ==
    /\ j_worker \in WorkerAwaits
    /\ j_worker' = "none"
    /\ j_current' = 0
    /\ UNCHANGED <<j_jobs, j_queue, j_rows, j_vectors, j_taken, j_listed>>
    /\ JobFrame

\* the except branch of process_ingestion_job: update_job(FAILED)
FailJob ==
    /\ j_jobs' = update_job(j_jobs, j_current, "failed", None, FALSE)
    /\ j_worker' = WorkerAfterFailure
    /\ j_current' = 0

\* _task_queue.get() returns the head; process_ingestion_job starts with
\* update_job(RUNNING, progress=0)
WorkerGetsJob ==
    /\ j_worker = "get"
    /\ j_queue # <<>>
    /\ j_queue' = Tail(j_queue)
    /\ j_current' = Head(j_queue)
    /\ j_taken' = Append(j_taken, Head(j_queue))
    /\ j_jobs' = update_job(j_jobs, Head(j_queue), "running", 0, FALSE)
    /\ j_worker' = "extract_pdf_text"
    /\ UNCHANGED <<j_rows, j_vectors, j_listed>>
    /\ JobFrame

\* lines 169-181: the file check, extract_pdf_text and the empty-text check
ExtractText(outcome) ==
    /\ j_worker = "extract_pdf_text"
    /\ IF outcome = "ok"
       THEN /\ j_jobs' = update_job(j_jobs, j_current, "None", 20, FALSE)
            /\ j_worker' = "chunk_text"
            /\ j_current' = j_current
       ELSE IF outcome = "file_missing"
       THEN FailJob
       ELSE /\ j_jobs' = update_job(update_job(j_jobs, j_current, "None", 10, FALSE),
                                    j_current, "failed", None, FALSE)
            /\ j_worker' = WorkerAfterFailure
            /\ j_current' = 0
    /\ UNCHANGED <<j_queue, j_rows, j_vectors, j_taken, j_listed>>
    /\ JobFrame

\* lines 185-195: chunk_text and the no-chunks check, up to the await of
\* get_embeddings
ChunkTheText(outcome) ==
    /\ j_worker = "chunk_text"
    /\ IF outcome = "ok"
       THEN /\ j_jobs' = update_job(j_jobs, j_current, "None", 40, FALSE)
            /\ j_worker' = "get_embeddings"
            /\ j_current' = j_current
       ELSE FailJob
    /\ UNCHANGED <<j_queue, j_rows, j_vectors, j_taken, j_listed>>
    /\ JobFrame

\* get_embeddings returns or raises; lines 196-241 up to the await of
\* db.commit()
GetEmbeddingsEnds(outcome) ==
    /\ j_worker = "get_embeddings"
    /\ IF outcome = "ok"
       THEN /\ j_jobs' = update_job(j_jobs, j_current, "None", 60, FALSE)
            /\ j_worker' = "commit"
            /\ j_current' = j_current
       ELSE FailJob
    /\ UNCHANGED <<j_queue, j_rows, j_vectors, j_taken, j_listed>>
    /\ JobFrame

\* db.commit() returns (the document and its chunk rows are stored) or
\* raises; lines 243-247 up to the await of upsert_chunks
CommitEnds(outcome) ==
    /\ j_worker = "commit"
    /\ IF outcome = "ok"
       THEN /\ j_jobs' = update_job(j_jobs, j_current, "None", 80, FALSE)
            /\ j_rows' = j_rows \cup {j_current}
            /\ j_worker' = "upsert_chunks"
            /\ j_current' = j_current
       ELSE FailJob /\ j_rows' = j_rows
    /\ UNCHANGED <<j_queue, j_vectors, j_taken, j_listed>>
    /\ JobFrame

\* upsert_chunks returns (the vectors are stored, update_job(DONE, 100,
\* document_id)) or raises; the worker loop awaits the next job
UpsertChunksEnds(outcome) ==
    /\ j_worker = "upsert_chunks"
    /\ IF outcome = "ok"
       THEN /\ j_jobs' = update_job(j_jobs, j_current, "done", 100, TRUE)
            /\ j_vectors' = j_vectors \cup {j_current}
            /\ j_worker' = "get"
            /\ j_current' = 0
       ELSE FailJob /\ j_vectors' = j_vectors
    /\ UNCHANGED <<j_queue, j_rows, j_taken, j_listed>>
    /\ JobFrame

\* the steps of the worker task
WorkerNext ==
    \/ WorkerGetsJob
    \/ \E outcome \in {"ok", "file_missing", "extract_error"} : ExtractText(outcome)
    \/ \E outcome \in {"ok", "no_chunks"} : ChunkTheText(outcome)
    \/ \E outcome \in {"ok", "error"} : GetEmbeddingsEnds(outcome)
    \/ \E outcome \in {"ok", "error"} : CommitEnds(outcome)
    \/ \E outcome \in {"ok", "error"} : UpsertChunksEnds(outcome)

InitJobs ==
    /\ NoJobs
    /\ NoFusionCall /\ EmptyStores /\ IdleCall /\ NoPolicyCall /\ NoChunkCall
    /\ NoDocOps /\ NoRetryCall /\ NoPageCall /\ NoAgentCall

NextJobs ==
    \/ CreateAndQueueJob
    \/ \E limit \in 1..MaxJobs : ListJobs(limit)
    \/ start_worker
    \/ stop_worker
    \/ WorkerNext

SpecJobs == InitJobs /\ [][NextJobs]_vars

\* the event loop runs the worker task whenever it can take a step, and
\* every awaited call returns or raises
SpecJobsFair == SpecJobs /\ WF_vars(WorkerNext)

\* ---------------------------------------------------------------- claim C21
JobStatusOf(job_id) == j_jobs[job_id].status

\* C21: outside an operation in progress the chunk rows and the vectors agree:
\* for every job that is not RUNNING, the rows of its document are stored
\* if and only if its vectors are, and a FAILED job has left neither.
C21_RowsAndVectorsAgreeAtRest ==
    \A job_id \in DOMAIN j_jobs :
        /\ JobStatusOf(job_id) # "running"
              => (job_id \in j_rows <=> job_id \in j_vectors)
        /\ JobStatusOf(job_id) = "failed"
              => (job_id \notin j_rows /\ job_id \notin j_vectors)

\* ---------------------------------------------------------------- claim C24
JobFieldsConsistent ==
    \A job_id \in DOMAIN j_jobs :
        /\ JobStatusOf(job_id) \in {"queued", "running", "done", "failed"}
        /\ JobStatusOf(job_id) = "done"
              => (j_jobs[job_id].progress = 100 /\ j_jobs[job_id].document_id)
        /\ j_jobs[job_id].completed_at <=> JobStatusOf(job_id) \in {"done", "failed"}

JobStepAllowed ==
    \A job_id \in DOMAIN j_jobs :
        /\ \/ j_jobs'[job_id].status = j_jobs[job_id].status
           \/ j_jobs[job_id].status = "queued" /\ j_jobs'[job_id].status = "running"
           \/ j_jobs[job_id].status = "running"
                 /\ j_jobs'[job_id].status \in {"done", "failed"}
        /\ j_jobs'[job_id].progress >= j_jobs[job_id].progress

\* C24: a job's status only moves QUEUED -> RUNNING -> DONE or FAILED and
\* never leaves DONE or FAILED, its progress never decreases, DONE comes
\* with progress 100 and a document_id, and completed_at is set exactly in
\* DONE and FAILED.
C24_JobLifecycle == []JobFieldsConsistent /\ [][JobStepAllowed]_vars

\* one job DONE and one job FAILED after its rows were committed
C24_Witness ==
    /\ Len(j_jobs) = 2
    /\ JobStatusOf(1) = "failed" /\ j_jobs[1].progress = 80
    /\ JobStatusOf(2) = "done"

\* ---------------------------------------------------------------- claim C25
\* C25: jobs are taken in the order they were queued, and at most one job
\* is RUNNING at any time, also across stop_worker and start_worker.
C25_FifoAndOneRunning ==
    /\ \A i \in DOMAIN j_taken : j_taken[i] = i
    /\ Cardinality({job_id \in DOMAIN j_jobs : JobStatusOf(job_id) = "running"}) <= 1

\* ---------------------------------------------------------------- claim C26
JobFailureKeepsWorker ==
    \A job_id \in DOMAIN j_jobs :
        (j_jobs[job_id].status # "failed" /\ j_jobs'[job_id].status = "failed")
            => j_worker' = "get"

\* C26: while the worker runs, every QUEUED job eventually is DONE or
\* FAILED (or the worker has been stopped), and a step that fails a job
\* leaves the worker waiting for the next job.
C26_QueuedJobsFinish ==
    /\ \A job_id \in 1..MaxJobs :
          (job_id \in DOMAIN j_jobs /\ JobStatusOf(job_id) = "queued" /\ j_worker # "none")
              ~> (\/ job_id \in DOMAIN j_jobs /\ JobStatusOf(job_id) \in {"done", "failed"}
                  \/ j_worker = "none")
    /\ [][JobFailureKeepsWorker]_vars

\* a job failed, the job queued after it was processed to DONE, and the
\* worker still waits for jobs
C26_Witness ==
    /\ Len(j_jobs) = 2
    /\ JobStatusOf(1) = "failed" /\ j_jobs[1].progress = 40
    /\ JobStatusOf(2) = "done"
    /\ j_worker = "get"

\* ---------------------------------------------------------------- claim C27
\* C27: list_jobs(limit) returns min(limit, number of jobs) jobs, newest
\* first: the i-th returned job is the i-th most recently created one.
C27_ListIsNewestFirst ==
    j_listed # <<>> =>
        /\ Len(j_listed.jobs) = Min(j_listed.limit, j_listed.jobs_then)
        /\ \A i \in DOMAIN j_listed.jobs :
              j_listed.jobs[i] = j_listed.jobs_then - i + 1

\* ================================================== specification SpecDocOps
\* delete_document and reindex_document on a store of documents, chunk rows
\* and Qdrant points. A call is one step; what its awaited calls do (return
\* or raise) is the step's outcome. o_last keeps what the last call was
\* given, what it found and how it ended.
OpDocs == 1..MaxDocs

ChunkRowsOf(chunks, document_id) == {c \in chunks : c.document_id = document_id}

PointsOf(points, document_id) == {p \in points : p.document_id = document_id}

\* the rows made by "for idx, ... in enumerate(chunks)": uuid4 ids, idx from 0
NewChunkRows(document_id, n) ==
    {[id |-> o_uuids + idx + 1, document_id |-> document_id, chunk_index |-> idx] :
        idx \in 0..(n - 1)}

\* upsert_chunks: one point per chunk, with the chunk's id
PointsFor(chunks) == {[id |-> c.id, document_id |-> c.document_id] : c \in chunks}

\* a failed deletion of the vectors is logged and the operation goes on
OnVectorDeleteErrorContinue(op) == "continue"

\* the except branch around delete_by_document_id: delete_document raises
\* DocumentOperationError, reindex_document logs a warning and goes on
OnVectorDeleteError(op) == IF op = "delete" THEN "raise" ELSE "continue"

LastOp(op, document_id, outcome, result, issued) ==
    [op |-> op, document_id |-> document_id, outcome |-> outcome,
     result |-> result, vector_delete_issued |-> issued,
     documents_before |-> o_documents, chunks_before |-> o_chunks,
     points_before |-> o_points, uuids_before |-> o_uuids]

DocOpsFrame ==
    /\ UNCHANGED fusionVars
    /\ UNCHANGED storeVars
    /\ UNCHANGED callVars
    /\ UNCHANGED policyVars
    /\ UNCHANGED chunkVars
    /\ UNCHANGED <<jobVars, retryVars, pageVars, agentVars>>

\* a document ingested without a failure: its rows and its points
StoreDocument(document_id, n) ==
    /\ document_id \notin o_documents
    /\ o_uuids + n <= MaxUuids
    /\ o_documents' = o_documents \cup {document_id}
    /\ o_chunks' = o_chunks \cup NewChunkRows(document_id, n)
    /\ o_points' = o_points \cup PointsFor(NewChunkRows(document_id, n))
    /\ o_uuids' = o_uuids + n
    /\ o_last' = LastOp("ingest", document_id, "ok", "ok", FALSE)
    /\ DocOpsFrame

delete_document(document_id, outcome) ==
    /\ IF document_id \notin o_documents
       THEN /\ outcome = "ok"
            /\ UNCHANGED <<o_documents, o_chunks, o_points>>
            /\ o_last' = LastOp("delete", document_id, outcome,
                                "DocumentNotFoundError", FALSE)
       ELSE IF outcome = "vector_delete_error" /\ OnVectorDeleteError("delete") = "raise"
       THEN /\ UNCHANGED <<o_documents, o_chunks, o_points>>
            /\ o_last' = LastOp("delete", document_id, outcome,
                                "DocumentOperationError", TRUE)
       ELSE /\ o_points' = IF outcome = "vector_delete_error" THEN o_points
                           ELSE o_points \ PointsOf(o_points, document_id)
            /\ IF outcome = "commit_error"
               THEN /\ UNCHANGED <<o_documents, o_chunks>>
                    /\ o_last' = LastOp("delete", document_id, outcome, "Exception", TRUE)
               ELSE /\ o_documents' = o_documents \ {document_id}
                    /\ o_chunks' = o_chunks \ ChunkRowsOf(o_chunks, document_id)
                    /\ o_last' = LastOp("delete", document_id, outcome, "ok", TRUE)
    /\ UNCHANGED o_uuids
    /\ DocOpsFrame

reindex_document(document_id, n, outcome) ==
    /\ IF document_id \notin o_documents
       THEN /\ outcome = "ok" /\ n = 1
            /\ UNCHANGED <<o_documents, o_chunks, o_points, o_uuids>>
            /\ o_last' = LastOp("reindex", document_id, outcome,
                                "DocumentNotFoundError", FALSE)
       ELSE IF outcome = "file_missing"
       THEN /\ n = 1
            /\ UNCHANGED <<o_documents, o_chunks, o_points, o_uuids>>
            /\ o_last' = LastOp("reindex", document_id, outcome,
                                "DocumentOperationError", FALSE)
       ELSE IF outcome = "vector_delete_error" /\ OnVectorDeleteError("reindex") = "raise"
       THEN /\ n = 1
            /\ UNCHANGED <<o_documents, o_chunks, o_points, o_uuids>>
            /\ o_last' = LastOp("reindex", document_id, outcome,
                                "DocumentOperationError", TRUE)
       ELSE LET kept == IF outcome = "vector_delete_error" THEN o_points
                        ELSE o_points \ PointsOf(o_points, document_id)
                new_rows == NewChunkRows(document_id, n)
            IN  IF outcome \in {"extract_error", "embedding_error", "upsert_error"}
                THEN /\ n = 1
                     /\ o_points' = kept
                     /\ UNCHANGED <<o_documents, o_chunks, o_uuids>>
                     /\ o_last' = LastOp("reindex", document_id, outcome,
                                         IF outcome = "extract_error"
                                         THEN "DocumentOperationError" ELSE "Exception",
                                         TRUE)
                ELSE /\ o_uuids + n <= MaxUuids
                     /\ o_uuids' = o_uuids + n
                     /\ o_points' = kept \cup PointsFor(new_rows)
                     /\ UNCHANGED o_documents
                     /\ IF outcome = "commit_error"
                        THEN /\ UNCHANGED o_chunks
                             /\ o_last' = LastOp("reindex", document_id, outcome,
                                                 "Exception", TRUE)
                        ELSE /\ o_chunks' = (o_chunks \ ChunkRowsOf(o_chunks, document_id))
                                                \cup new_rows
                             /\ o_last' = LastOp("reindex", document_id, outcome,
                                                 "ok", TRUE)
    /\ DocOpsFrame

DeleteOutcomes == {"ok", "vector_delete_error", "commit_error"}

ReindexOutcomes ==
    {"ok", "file_missing", "vector_delete_error", "extract_error",
     "embedding_error", "upsert_error", "commit_error"}

InitDocOps ==
    /\ NoDocOps
    /\ NoFusionCall /\ EmptyStores /\ IdleCall /\ NoPolicyCall /\ NoChunkCall
    /\ NoJobs /\ NoRetryCall /\ NoPageCall /\ NoAgentCall

NextDocOps ==
    \/ \E document_id \in OpDocs, n \in 1..MaxChunksPerDoc : StoreDocument(document_id, n)
    \/ \E document_id \in OpDocs, outcome \in DeleteOutcomes :
          delete_document(document_id, outcome)
    \/ \E document_id \in OpDocs, n \in 1..MaxChunksPerDoc, outcome \in ReindexOutcomes :
          reindex_document(document_id, n, outcome)

SpecDocOps == InitDocOps /\ [][NextDocOps]_vars

\* ---------------------------------------------------------------- claim C22
LastWas(op) == o_last # <<>> /\ o_last.op = op

\* C22: after a successful reindex_document(d) the document is still there
\* and what is stored for d is exactly the new chunks: indexes 0..n-1 once
\* each, one vector per new chunk id, and no chunk row or vector of d from
\* before the call.
C22_ReindexReplacesChunksAndVectors ==
    (LastWas("reindex") /\ o_last.result = "ok") =>
        LET d == o_last.document_id
            rows == ChunkRowsOf(o_chunks, d)
            points == PointsOf(o_points, d)
        IN  /\ d \in o_documents
            /\ o_documents = o_last.documents_before
            /\ \A c \in rows : c.chunk_index \in 0..(Cardinality(rows) - 1)
            /\ \A c1, c2 \in rows : c1.chunk_index = c2.chunk_index => c1 = c2
            /\ {p.id : p \in points} = {c.id : c \in rows}
            /\ rows \cap o_last.chunks_before = {}
            /\ points \cap o_last.points_before = {}

\* ---------------------------------------------------------------- claim C23
\* C23: a delete_document that ends in an error leaves the document rows and
\* chunk rows as they were; when the deletion of the vectors fails it raises
\* DocumentOperationError, and for a document that does not exist it raises
\* DocumentNotFoundError and no deletion of vectors has been issued.
C23_DeleteLeavesDatabaseOnError ==
    LastWas("delete") =>
        /\ o_last.result # "ok"
              => (o_documents = o_last.documents_before
                  /\ o_chunks = o_last.chunks_before)
        /\ (o_last.document_id \in o_last.documents_before
               /\ o_last.outcome = "vector_delete_error")
              => o_last.result = "DocumentOperationError"
        /\ o_last.document_id \notin o_last.documents_before
              => (o_last.result = "DocumentNotFoundError"
                  /\ ~o_last.vector_delete_issued
                  /\ o_points = o_last.points_before)

\* the deletion of the vectors of a document with two chunk rows failed
C23_Witness ==
    /\ LastWas("delete")
    /\ o_last.outcome = "vector_delete_error"
    /\ o_last.result = "DocumentOperationError"
    /\ Cardinality(ChunkRowsOf(o_chunks, o_last.document_id)) = 2

====
